---- MODULE Spec2Model ----
(***************************************************************************)
(* Memoized Fibonacci (fib_module.fib) and its driver (main.main), as a    *)
(* small-step state machine: one frame per invocation of fib, one action   *)
(* per path through its body.                                              *)
(***************************************************************************)
EXTENDS Integers, Sequences, FiniteSets, Bags, TLC

\* ---------------------------------------------------------------- bounds
\* Largest index an external caller passes to fib.
MaxN == 5
\* External callers also pass the negative indices -NegDepth .. -1.
NegDepth == 2
\* Largest number of entries in a cache the caller pre-populates.
MaxPrepop == 2

\* ------------------------------------------------------------- reference
\* The Fibonacci sequence of the glossary: F(0)=0, F(1)=1, F(n)=F(n-1)+F(n-2).
RECURSIVE F(_)
F(k) == IF k <= 0 THEN 0 ELSE IF k = 1 THEN 1 ELSE F(k - 1) + F(k - 2)

\* ----------------------------------------------------- program constants
\* main.py: n = 16
MainN == 16

\* ------------------------------------------------------- pure operations
\* memo = {}
EmptyMemo == [k \in {} |-> 0]

\* A mapping reused from the previous call instead of a new one.
StaleMemo(stale) == stale
\* if memo is None: memo = {}      (a new dict object on every call)
DefaultMemo(stale) == EmptyMemo

\* A base case that only covers index 0.
IsBaseZeroOnly(n) == n <= 0
\* if n <= 1
IsBase(n) == n <= 1

\* A lookup that never finds the key.
NeverInMemo(n, m) == FALSE
\* if n in memo
InMemo(n, m) == n \in DOMAIN m

\* A sum that drops the second operand.
CombineFirstOnly(a, b) == a
\* fib(n - 1, memo) + fib(n - 2, memo)
Combine(a, b) == a + b

\* An assignment that rebinds memo to a dict holding only the new entry.
MemoReplace(m, n, v) == [k \in {n} |-> v]
\* memo[n] = v
MemoStore(m, n, v) == [k \in (DOMAIN m) \cup {n} |-> IF k = n THEN v ELSE m[k]]

\* str() of a decimal digit and of an integer, as the f-string formats it.
Digit(d) == <<"0", "1", "2", "3", "4", "5", "6", "7", "8", "9">>[d + 1]
RECURSIVE NatStr(_)
NatStr(i) == IF i < 10 THEN Digit(i) ELSE NatStr(i \div 10) \o Digit(i % 10)
IntStr(i) == IF i < 0 THEN "-" \o NatStr(0 - i) ELSE NatStr(i)

\* A line with the two substitutions exchanged.
FormatLineSwapped(n, result) ==
    "The " \o IntStr(result) \o "th Fibonacci number is: " \o IntStr(n)
\* f"The {n}th Fibonacci number is: {result}"
FormatLine(n, result) ==
    "The " \o IntStr(n) \o "th Fibonacci number is: " \o IntStr(result)

\* fib as a function of (n, memo): the value returned, the memo left behind
\* and the number of invocations of fib made, the outermost one included.
RECURSIVE fib(_, _)
fib(n, m) ==
    IF IsBase(n) THEN [val |-> n, memo |-> m, calls |-> 1]
    ELSE IF InMemo(n, m) THEN [val |-> m[n], memo |-> m, calls |-> 1]
    ELSE LET r1 == fib(n - 1, m)
             r2 == fib(n - 2, r1.memo)
             v  == Combine(r1.val, r2.val)
         IN  [val |-> v, memo |-> MemoStore(r2.memo, n, v),
              calls |-> 1 + r1.calls + r2.calls]

\* ------------------------------------------------------- caller's inputs
Args == (0 - NegDepth)..MaxN
CachesOn(D) == {[k \in D |-> IF k \in W THEN F(k) + 1 ELSE F(k)] : W \in SUBSET D}
\* The caches an external caller supplies: at most MaxPrepop entries on the
\* keys 0..MaxN, each either the right value F(k) or a different one.
PrepopCaches ==
    UNION {CachesOn(D) : D \in {S \in SUBSET (0..MaxN) : Cardinality(S) <= MaxPrepop}}

NoCall == [n |-> 0, result |-> 0, seen |-> 0]

\* ----------------------------------------------------------------- state
VARIABLES
    program,    \* "main": main.py run as a script; "harness": fib imported
    status,     \* "idle", "running", "returned", "raised" of the top-level call
    arg,        \* n of the top-level call
    hasCache,   \* whether the top-level call was given a memo argument
    stack,      \* frames of fib, innermost last: [n, pc, a]
    memo,       \* the dict threaded through the current top-level call
    memo0,      \* its contents when the top-level call started
    ret,        \* value returned by the invocation that returned last
    calls,      \* invocations of fib in the current top-level call
    lookups,    \* evaluations of "n in memo" in the current top-level call
    requests,   \* bag: index k -> invocations fib(k, ...) in this call
    computed,   \* bag: index k -> executions of "memo[k] = ..." in this call
    returned,   \* set of <<k, v>>: an invocation fib(k, ...) returned v
    first,      \* the first completed top-level call without a memo argument
    output      \* lines printed to standard output

vars == <<program, status, arg, hasCache, stack, memo, memo0, ret, calls,
          lookups, requests, computed, returned, first, output>>

Top == stack[Len(stack)]
Pop == SubSeq(stack, 1, Len(stack) - 1)
Frame(n) == [n |-> n, pc |-> "enter", a |-> 0]
ReplaceTop(f) == [stack EXCEPT ![Len(stack)] = f]
One(k) == SetToBag({k})

Init ==
    /\ program \in {"main", "harness"}
    /\ status = "idle"
    /\ arg = 0
    /\ hasCache = FALSE
    /\ stack = <<>>
    /\ memo = EmptyMemo
    /\ memo0 = EmptyMemo
    /\ ret = 0
    /\ calls = 0
    /\ lookups = 0
    /\ requests = EmptyBag
    /\ computed = EmptyBag
    /\ returned = {}
    /\ first = NoCall
    /\ output = <<>>

\* Binding of the parameters of a top-level call fib(n) or fib(n, c).
Enter(n, given, c) ==
    /\ status' = "running"
    /\ arg' = n
    /\ hasCache' = given
    /\ stack' = <<Frame(n)>>
    /\ memo' = IF given THEN c ELSE DefaultMemo(memo)
    /\ memo0' = memo'
    /\ calls' = 1
    /\ lookups' = 0
    /\ requests' = One(n)
    /\ computed' = EmptyBag
    /\ returned' = {}
    /\ ret' = 0
    /\ UNCHANGED first

\* An external caller invokes fib(n).
CallDefault ==
    /\ program = "harness"
    /\ status = "idle"
    /\ \E n \in Args : Enter(n, FALSE, EmptyMemo)
    /\ UNCHANGED <<program, output>>

\* An external caller invokes fib(n, c) with a cache of its own.
CallWithCache ==
    /\ program = "harness"
    /\ status = "idle"
    /\ \E n \in Args, c \in PrepopCaches : Enter(n, TRUE, c)
    /\ UNCHANGED <<program, output>>

\* main(): n = 16; result = fib(n)
MainCall ==
    /\ program = "main"
    /\ status = "idle"
    /\ Enter(MainN, FALSE, EmptyMemo)
    /\ UNCHANGED <<program, output>>

\* main(): print(f"The {n}th Fibonacci number is: {result}")
MainPrint ==
    /\ program = "main"
    /\ status = "returned"
    /\ output = <<>>
    /\ output' = Append(output, FormatLine(arg, ret))
    /\ UNCHANGED <<program, status, arg, hasCache, stack, memo, memo0, ret,
                   calls, lookups, requests, computed, returned, first>>

\* The innermost invocation returns v to its caller.
Return(v) ==
    /\ stack' = Pop
    /\ ret' = v
    /\ returned' = returned \cup {<<Top.n, v>>}
    /\ status' = IF Len(stack) = 1 THEN "returned" ELSE "running"
    /\ first' = IF Len(stack) = 1 /\ ~hasCache
                THEN IF first.seen = 0
                     THEN [n |-> arg, result |-> v, seen |-> 1]
                     ELSE IF first.n = arg /\ first.result = v
                          THEN [first EXCEPT !.seen = 2]
                          ELSE first
                ELSE first

\* if n <= 1: return n
Base ==
    /\ status = "running"
    /\ Top.pc = "enter"
    /\ IsBase(Top.n)
    /\ Return(Top.n)
    /\ UNCHANGED <<program, arg, hasCache, memo, memo0, calls, lookups,
                   requests, computed, output>>

\* if n in memo: return memo[n]
Hit ==
    /\ status = "running"
    /\ Top.pc = "enter"
    /\ ~IsBase(Top.n)
    /\ InMemo(Top.n, memo)
    /\ lookups' = lookups + 1
    /\ Return(memo[Top.n])
    /\ UNCHANGED <<program, arg, hasCache, memo, memo0, calls, requests,
                   computed, output>>

\* n is neither a base case nor in memo: the call fib(n - 1, memo) is made.
Miss ==
    /\ status = "running"
    /\ Top.pc = "enter"
    /\ ~IsBase(Top.n)
    /\ ~InMemo(Top.n, memo)
    /\ lookups' = lookups + 1
    /\ stack' = Append(ReplaceTop([Top EXCEPT !.pc = "call1"]), Frame(Top.n - 1))
    /\ calls' = calls + 1
    /\ requests' = requests (+) One(Top.n - 1)
    /\ UNCHANGED <<program, status, arg, hasCache, memo, memo0, ret, computed,
                   returned, first, output>>

\* fib(n - 1, memo) has returned: the call fib(n - 2, memo) is made.
Second ==
    /\ status = "running"
    /\ Top.pc = "call1"
    /\ stack' = Append(ReplaceTop([Top EXCEPT !.pc = "call2", !.a = ret]),
                       Frame(Top.n - 2))
    /\ calls' = calls + 1
    /\ requests' = requests (+) One(Top.n - 2)
    /\ UNCHANGED <<program, status, arg, hasCache, memo, memo0, ret, lookups,
                   computed, returned, first, output>>

\* fib(n - 2, memo) has returned: memo[n] = <sum>; return memo[n]
Store ==
    /\ status = "running"
    /\ Top.pc = "call2"
    /\ memo' = MemoStore(memo, Top.n, Combine(Top.a, ret))
    /\ computed' = computed (+) One(Top.n)
    /\ Return(memo'[Top.n])
    /\ UNCHANGED <<program, arg, hasCache, memo0, calls, lookups, requests,
                   output>>

\* The external caller has taken the result of a completed call: what the
\* call left on the stack is gone.  A dict the caller supplied stays with the
\* caller; a dict bound by the default path stays behind, unreferenced.
Discard ==
    /\ program = "harness"
    /\ status = "returned"
    /\ status' = "idle"
    /\ memo' = IF hasCache THEN EmptyMemo ELSE memo
    /\ arg' = 0
    /\ hasCache' = FALSE
    /\ memo0' = EmptyMemo
    /\ ret' = 0
    /\ calls' = 0
    /\ lookups' = 0
    /\ requests' = EmptyBag
    /\ computed' = EmptyBag
    /\ returned' = {}
    /\ UNCHANGED <<program, stack, first, output>>

\* One step of the evaluation of fib.
Step == Base \/ Hit \/ Miss \/ Second \/ Store

Next == CallDefault \/ CallWithCache \/ Discard \/ MainCall \/ MainPrint \/ Step

Spec == Init /\ [][Next]_vars

\* Execution is synchronous: a call that has started keeps running.
FairSpec == Spec /\ WF_vars(Step)

\* ------------------------------------------------------------ properties
Done == status = "returned"
Count(b, k) == CopiesIn(k, b)
Requested == BagToSet(requests)
\* Every entry on an index >= 2 holds the Fibonacci number of its key.
CorrectFrom2(m) == \A k \in DOMAIN m : k >= 2 => m[k] = F(k)
\* Every entry holds the Fibonacci number of its key.
Correct(m) == \A k \in DOMAIN m : m[k] = F(k)
\* Invocations of fib made by fib(n) on an empty cache.
EmptyCalls(n) == fib(n, EmptyMemo).calls

\* C1: a completed top-level call fib(n) without a cache argument, n >= 0,
\* has returned the n-th Fibonacci number; fib(0) = 0 and fib(1) = 1.
C1_ReturnsFibonacci ==
    (Done /\ ~hasCache /\ arg >= 0) =>
        /\ ret = F(arg)
        /\ (arg = 0 => ret = 0)
        /\ (arg = 1 => ret = 1)
C1_Witness == Done /\ ~hasCache /\ arg >= 4 /\ ret = F(arg) /\ ret >= 3

\* C2 (as stated): after fib(n, cache) completes, n >= 0, every k in 0..n is
\* a key of the cache and is mapped to F(k).
C2_AllKeysCached ==
    (Done /\ arg >= 0) =>
        \A k \in 0..arg : k \in DOMAIN memo /\ memo[k] = F(k)
\* C2 (amended): after fib(n, cache) completes, n >= 2, on a cache whose
\* entries were correct, key n is mapped to F(n) and every entry is correct;
\* when the cache was empty its keys are exactly 2..n, the base indices 0 and
\* 1 never being inserted.
C2_KeysFrom2Cached ==
    (Done /\ arg >= 2 /\ CorrectFrom2(memo0)) =>
        /\ arg \in DOMAIN memo /\ memo[arg] = F(arg)
        /\ CorrectFrom2(memo)
        /\ (memo0 = EmptyMemo => DOMAIN memo = 2..arg)
C2_Witness ==
    Done /\ arg >= 4 /\ memo0 = EmptyMemo /\ DOMAIN memo = 2..arg
         /\ memo[arg] = F(arg)

\* C3: no step of a running call removes a key of the cache or changes the
\* value of a key that is present, pre-populated or inserted by this call.
C3_InsertOnly ==
    [][status = "running" =>
         \A k \in DOMAIN memo : k \in DOMAIN memo' /\ memo'[k] = memo[k]]_vars
C3_Witness ==
    Done /\ hasCache /\ memo # memo0
         /\ (\E k \in DOMAIN memo0 : k >= 2 /\ k < arg /\ memo[k] = memo0[k])

\* C4 (as stated): with a pre-populated cache of correct entries on indices
\* below n, n >= 0, fib(n, cache) returns F(n) after strictly fewer
\* invocations than fib(n) on an empty cache.
C4_AnyPrepopFewerCalls ==
    (Done /\ hasCache /\ arg >= 0 /\ memo0 # EmptyMemo /\ Correct(memo0)
          /\ (\A k \in DOMAIN memo0 : k < arg)) =>
        ret = F(arg) /\ calls < EmptyCalls(arg)
\* C4 (amended): the same, for caches that hold at least one entry on an
\* index in 2..n-1 (so n >= 3); entries on the base indices 0 and 1 are never
\* consulted and save no invocation.
C4_PrepopFrom2FewerCalls ==
    (Done /\ hasCache /\ arg >= 0 /\ memo0 # EmptyMemo /\ Correct(memo0)
          /\ (\A k \in DOMAIN memo0 : k < arg)
          /\ (\E k \in DOMAIN memo0 : k >= 2)) =>
        ret = F(arg) /\ calls < EmptyCalls(arg)
C4_Witness ==
    Done /\ hasCache /\ arg = MaxN /\ DOMAIN memo0 = {arg - 1} /\ Correct(memo0)
         /\ ret = F(arg) /\ calls < EmptyCalls(arg) /\ calls > 1

\* C5 (as stated): in a top-level call fib(n), every index requested more
\* than once has had its cache entry computed and stored exactly once, and
\* every request for it returned that one value.
C5_EveryIndexComputedOnce ==
    (status \in {"running", "returned"} /\ ~hasCache) =>
        \A k \in Requested :
            Count(requests, k) > 1 =>
                /\ Count(computed, k) = 1
                /\ \A p \in returned : p[1] = k => p[2] = memo[k]
\* C5 (amended): the same for every index k >= 2; an index k <= 1 is never
\* stored, and every request for it returns k.
C5_IndexFrom2ComputedOnce ==
    (status \in {"running", "returned"} /\ ~hasCache) =>
        \A k \in Requested :
            /\ Count(computed, k) <= 1
            /\ (k >= 2 /\ Count(requests, k) > 1) =>
                   /\ Count(computed, k) = 1
                   /\ \A p \in returned : p[1] = k => p[2] = memo[k]
            /\ k <= 1 =>
                   /\ Count(computed, k) = 0
                   /\ k \notin DOMAIN memo
                   /\ \A p \in returned : p[1] = k => p[2] = k
C5_Witness ==
    Done /\ ~hasCache
         /\ \E k \in Requested :
                /\ k >= 2
                /\ Count(requests, k) = 2
                /\ Count(computed, k) = 1
                /\ <<k, memo[k]>> \in returned

\* C6: a top-level call with a negative n never returns a value (it fails
\* with InvalidArgument) and leaves the cache as it was.
C6_NegativeRejected ==
    (status \in {"returned", "raised"} /\ arg < 0) =>
        status = "raised" /\ memo = memo0

\* C7: a top-level call without a cache argument starts on an empty cache,
\* whatever calls came before it, and a repeated fib(n) returns what the
\* first fib(n) returned.
C7_FreshCachePerCall ==
    /\ (status \in {"running", "returned"} /\ ~hasCache) => memo0 = EmptyMemo
    /\ (Done /\ ~hasCache /\ first.seen > 0 /\ first.n = arg) =>
           ret = first.result
C7_Witness ==
    Done /\ ~hasCache /\ first.seen = 2 /\ first.n = arg /\ arg >= 3
         /\ ret = first.result /\ memo0 = EmptyMemo /\ memo # EmptyMemo

\* C8: main() calls fib with n = 16 and no cache, hence an empty one, and
\* prints exactly one line: The 16th Fibonacci number is: 987
C8_MainPrintsLine ==
    program = "main" =>
        /\ (status # "idle" => arg = 16 /\ ~hasCache /\ memo0 = EmptyMemo)
        /\ Len(output) <= 1
        /\ (output # <<>> => output = <<"The 16th Fibonacci number is: 987">>)
        /\ (output # <<>> => Done /\ ret = 987)
C8_Witness ==
    program = "main" /\ Done /\ output = <<"The 16th Fibonacci number is: 987">>

C10_BaseCaseIgnoresCache ==
    (Done /\ arg <= 1) =>
        ret = arg /\ calls = 1 /\ lookups = 0 /\ memo = memo0
C10_Witness ==
    Done /\ hasCache /\ arg <= 1 /\ arg \in DOMAIN memo0 /\ memo0[arg] # arg
         /\ ret = arg /\ memo = memo0

====
